---- MODULE Spec2Model ----
(***************************************************************************)
(* Top-down shooter: the simulation engine of src/main.cpp.                *)
(*                                                                         *)
(* Units. Positions and radii are whole world units. Time is counted in    *)
(* tenths of a second, so a cooldown of 0.3 s is 3 and 1.5 s is 15, and a  *)
(* velocity v (units per second) applied for dt tenths moves an entity by  *)
(* v * dt / 10 units. All velocities the model draws are multiples of 10,  *)
(* except the boss's blended velocity, which is rounded down.              *)
(***************************************************************************)
EXTENDS Integers, Sequences, FiniteSets, TLC

\* ---------------------------------------------------------------- constants
SCREEN_WIDTH == 800
SCREEN_HEIGHT == 600
PLAYER_SPEED == 200
ENEMY_SPEED == 80
PLAYER_HEALTH == 100
ENEMY_HEALTH == 30
BOSS_HEALTH == 150
PLAYER_SHOOT_COOLDOWN == 3
ENEMY_SHOOT_COOLDOWN == 15
PROJECTILE_SPEED == 400
PLAYER_RADIUS == 15
ENEMY_RADIUS == 12
BOSS_RADIUS == 25
PROJECTILE_RADIUS == 5
PROJECTILE_HEALTH == 1
PLAYER_DAMAGE == 10
ENEMY_DAMAGE == 5
AGGRO_RADIUS == 150
WANDER_INTERVAL == 20
SPAWN_OFFSET == 20
EXIT_MARGIN == 50
POOL_SIZE == 100
ROOM_COUNT == 5
ROOM_WIDTH == 800
ROOM_HEIGHT == 600
BOSS_X == 400
BOSS_Y == 300
ENEMY_COUNT_MIN == 3
ENEMY_COUNT_MAX == 6

Direction == {"UP", "RIGHT", "DOWN", "LEFT"}

Max(a, b) == IF a < b THEN b ELSE a
Min(a, b) == IF b < a THEN b ELSE a
Abs(a) == IF a < 0 THEN -a ELSE a

\* x += speed * deltaTime, with deltaTime in tenths of a second
Step(speed, dt) == (speed * dt) \div 10

\* std::max(lo, std::min(v, hi))
Clamp(v, lo, hi) == Max(lo, Min(v, hi))

\* ---------------------------------------------------------------- Entity
\* The Entity fields (x, y, radius, health, maxHealth, active, color, facing) are
\* the first eight fields of every record below; Entity's constructor is inlined
\* in NewProjectile, NewPlayer and NewEnemy.
\* variant: the health is not clamped at 0
TakeDamageNoClamp(e, amount) ==
  LET h == e.health - amount
  IN IF h <= 0 THEN [e EXCEPT !.health = h, !.active = FALSE]
               ELSE [e EXCEPT !.health = h]

\* variant: the lethal hit clears the flag and leaves the health as it was
TakeDamageFlagOnly(e, amount) ==
  IF e.health - amount <= 0 THEN [e EXCEPT !.active = FALSE]
                            ELSE [e EXCEPT !.health = e.health - amount]

TakeDamage(e, amount) ==
  LET h == e.health - amount
  IN IF h <= 0 THEN [e EXCEPT !.health = 0, !.active = FALSE]
               ELSE [e EXCEPT !.health = h]

\* variant: touching circles collide
IsCollidingTouching(a, b) ==
  LET dx == a.x - b.x
      dy == a.y - b.y
      rr == a.radius + b.radius
  IN dx * dx + dy * dy <= rr * rr

IsColliding(a, b) ==
  LET dx == a.x - b.x
      dy == a.y - b.y
      rr == a.radius + b.radius
  IN dx * dx + dy * dy < rr * rr

\* ---------------------------------------------------------------- Projectile
NewProjectile ==
  [x |-> 0, y |-> 0, radius |-> PROJECTILE_RADIUS, health |-> PROJECTILE_HEALTH,
   maxHealth |-> PROJECTILE_HEALTH, active |-> FALSE, color |-> "YELLOW",
   facing |-> "RIGHT", speedX |-> 0, speedY |-> 0,
   isEnemyProjectile |-> FALSE, damage |-> PLAYER_DAMAGE]

ProjectileFire(p, startX, startY, dir, fromEnemy) ==
  [p EXCEPT !.x = startX, !.y = startY, !.active = TRUE,
            !.isEnemyProjectile = fromEnemy,
            !.color = IF fromEnemy THEN "RED" ELSE "YELLOW",
            !.damage = IF fromEnemy THEN ENEMY_DAMAGE ELSE PLAYER_DAMAGE,
            !.speedX = CASE dir = "RIGHT" -> PROJECTILE_SPEED
                         [] dir = "LEFT" -> -PROJECTILE_SPEED
                         [] OTHER -> 0,
            !.speedY = CASE dir = "DOWN" -> PROJECTILE_SPEED
                         [] dir = "UP" -> -PROJECTILE_SPEED
                         [] OTHER -> 0]

ProjectileUpdate(p, dt) ==
  IF p.active
    THEN [p EXCEPT !.x = p.x + Step(p.speedX, dt), !.y = p.y + Step(p.speedY, dt)]
    ELSE p

\* ---------------------------------------------------------------- Player
NewPlayer(startX, startY) ==
  [x |-> startX, y |-> startY, radius |-> PLAYER_RADIUS, health |-> PLAYER_HEALTH,
   maxHealth |-> PLAYER_HEALTH, active |-> TRUE, color |-> "BLUE",
   facing |-> "RIGHT", speedX |-> 0, speedY |-> 0, shootCooldown |-> 0]

\* variant: opposite keys cancel each other
PlayerUpdateCancel(p, keys, dt) ==
  LET up == keys.W /\ ~keys.S
      down == keys.S /\ ~keys.W
      left == keys.A /\ ~keys.D
      right == keys.D /\ ~keys.A
      p0 == [p EXCEPT !.speedX = 0, !.speedY = 0]
      p1 == IF up THEN [p0 EXCEPT !.speedY = -PLAYER_SPEED, !.facing = "UP"] ELSE p0
      p2 == IF down THEN [p1 EXCEPT !.speedY = PLAYER_SPEED, !.facing = "DOWN"] ELSE p1
      p3 == IF left THEN [p2 EXCEPT !.speedX = -PLAYER_SPEED, !.facing = "LEFT"] ELSE p2
      p4 == IF right THEN [p3 EXCEPT !.speedX = PLAYER_SPEED, !.facing = "RIGHT"] ELSE p3
  IN [p4 EXCEPT !.x = p4.x + Step(p4.speedX, dt), !.y = p4.y + Step(p4.speedY, dt),
                !.shootCooldown = IF p4.shootCooldown > 0 THEN p4.shootCooldown - dt
                                  ELSE p4.shootCooldown]

\* keys: [W, S, A, D, SPACE -> BOOLEAN], the keys held down in the frame
PlayerUpdate(p, keys, dt) ==
  LET p0 == [p EXCEPT !.speedX = 0, !.speedY = 0]
      p1 == IF keys.W THEN [p0 EXCEPT !.speedY = -PLAYER_SPEED, !.facing = "UP"] ELSE p0
      p2 == IF keys.S THEN [p1 EXCEPT !.speedY = PLAYER_SPEED, !.facing = "DOWN"] ELSE p1
      p3 == IF keys.A THEN [p2 EXCEPT !.speedX = -PLAYER_SPEED, !.facing = "LEFT"] ELSE p2
      p4 == IF keys.D THEN [p3 EXCEPT !.speedX = PLAYER_SPEED, !.facing = "RIGHT"] ELSE p3
  IN [p4 EXCEPT !.x = p4.x + Step(p4.speedX, dt), !.y = p4.y + Step(p4.speedY, dt),
                !.shootCooldown = IF p4.shootCooldown > 0 THEN p4.shootCooldown - dt
                                  ELSE p4.shootCooldown]

PlayerCanShoot(p) == p.shootCooldown <= 0

PlayerResetShootCooldown(p) == [p EXCEPT !.shootCooldown = PLAYER_SHOOT_COOLDOWN]

\* ---------------------------------------------------------------- Enemy
\* h: the heading drawn from the random source, <<cos(angle) * ENEMY_SPEED,
\* sin(angle) * ENEMY_SPEED>>
ChangeDirection(e, h) ==
  [e EXCEPT !.speedX = h[1], !.speedY = h[2],
            !.facing = IF Abs(h[1]) > Abs(h[2])
                         THEN (IF h[1] > 0 THEN "RIGHT" ELSE "LEFT")
                         ELSE (IF h[2] > 0 THEN "DOWN" ELSE "UP")]

NewEnemy(startX, startY, h) ==
  ChangeDirection(
    [x |-> startX, y |-> startY, radius |-> ENEMY_RADIUS, health |-> ENEMY_HEALTH,
     maxHealth |-> ENEMY_HEALTH, active |-> TRUE, color |-> "RED",
     facing |-> "RIGHT", speedX |-> 0, speedY |-> 0, shootCooldown |-> 0,
     aggro |-> FALSE, moveTimer |-> 0, isBoss |-> FALSE], h)

\* variant: the boss keeps the maximum health of an enemy
NewBossEnemyMax(startX, startY, h) ==
  [NewEnemy(startX, startY, h) EXCEPT !.radius = BOSS_RADIUS, !.health = BOSS_HEALTH,
     !.color = "PURPLE", !.isBoss = TRUE]

NewBoss(startX, startY, h) ==
  [NewEnemy(startX, startY, h) EXCEPT !.radius = BOSS_RADIUS, !.health = BOSS_HEALTH,
     !.maxHealth = BOSS_HEALTH, !.color = "PURPLE", !.isBoss = TRUE]

\* variant: an enemy that was aggro stays aggro
EnemyUpdateSticky(e, dt, p, h) ==
  LET dx == p.x - e.x
      dy == p.y - e.y
      ag == e.aggro \/ dx * dx + dy * dy <= AGGRO_RADIUS * AGGRO_RADIUS
      e1 == [e EXCEPT !.aggro = ag]
      e2 == IF ~ag
              THEN IF e1.moveTimer + dt >= WANDER_INTERVAL
                     THEN [ChangeDirection(e1, h) EXCEPT !.moveTimer = 0]
                     ELSE [e1 EXCEPT !.moveTimer = e1.moveTimer + dt]
              ELSE [e1 EXCEPT !.facing =
                      IF Abs(dx) > Abs(dy)
                        THEN (IF dx > 0 THEN "RIGHT" ELSE "LEFT")
                        ELSE (IF dy > 0 THEN "DOWN" ELSE "UP")]
  IN [e2 EXCEPT !.x = e2.x + Step(e2.speedX, dt), !.y = e2.y + Step(e2.speedY, dt),
                !.shootCooldown = IF e2.shootCooldown > 0 THEN e2.shootCooldown - dt
                                  ELSE e2.shootCooldown]

EnemyUpdate(e, dt, p, h) ==
  LET dx == p.x - e.x
      dy == p.y - e.y
      ag == dx * dx + dy * dy <= AGGRO_RADIUS * AGGRO_RADIUS
      e1 == [e EXCEPT !.aggro = ag]
      e2 == IF ~ag
              THEN IF e1.moveTimer + dt >= WANDER_INTERVAL
                     THEN [ChangeDirection(e1, h) EXCEPT !.moveTimer = 0]
                     ELSE [e1 EXCEPT !.moveTimer = e1.moveTimer + dt]
              ELSE [e1 EXCEPT !.facing =
                      IF Abs(dx) > Abs(dy)
                        THEN (IF dx > 0 THEN "RIGHT" ELSE "LEFT")
                        ELSE (IF dy > 0 THEN "DOWN" ELSE "UP")]
  IN [e2 EXCEPT !.x = e2.x + Step(e2.speedX, dt), !.y = e2.y + Step(e2.speedY, dt),
                !.shootCooldown = IF e2.shootCooldown > 0 THEN e2.shootCooldown - dt
                                  ELSE e2.shootCooldown]

EnemyCanShoot(e) == e.shootCooldown <= 0 /\ e.aggro

\* variant: the reset leaves the enemy ready to shoot
EnemyResetShootCooldownOff(e) == [e EXCEPT !.shootCooldown = 0]

EnemyResetShootCooldown(e) == [e EXCEPT !.shootCooldown = ENEMY_SHOOT_COOLDOWN]

\* w: <<cos(GetTime() * 0.5) * ENEMY_SPEED * 0.5, sin(GetTime() * 0.3) * ENEMY_SPEED * 0.5>>,
\* a function of wall-clock time, drawn by the caller
BossUpdate(e, dt, p, h, w) ==
  LET e1 == EnemyUpdate(e, dt, p, h)
  IN [e1 EXCEPT !.speedX = w[1] + e1.speedX \div 2, !.speedY = w[2] + e1.speedY \div 2]

\* virtual dispatch of Enemy::Update
EnemyDispatchUpdate(e, dt, p, h, w) ==
  IF e.isBoss THEN BossUpdate(e, dt, p, h, w) ELSE EnemyUpdate(e, dt, p, h)

\* ---------------------------------------------------------------- Room
Room(posX, posY, w, h, boss) ==
  [x |-> posX, y |-> posY, width |-> w, height |-> h, enemies |-> <<>>,
   cleared |-> FALSE, hasBoss |-> boss]

AddEnemy(room, enemyX, enemyY, h) ==
  [room EXCEPT !.enemies = Append(@, NewEnemy(enemyX, enemyY, h))]

AddBoss(room, bossX, bossY, h) ==
  [room EXCEPT !.enemies = Append(@, NewBoss(bossX, bossY, h))]

ContainsPoint(room, pointX, pointY) ==
  /\ pointX >= room.x
  /\ pointX <= room.x + room.width
  /\ pointY >= room.y
  /\ pointY <= room.y + room.height

\* Keep enemies inside room
\* variant: the room does not hold its enemies back
KeepInsideOff(room, e) == e

KeepInside(room, e) ==
  [e EXCEPT !.x = Clamp(e.x, room.x + e.radius, room.x + room.width - e.radius),
            !.y = Clamp(e.y, room.y + e.radius, room.y + room.height - e.radius)]

\* the loop over the enemies of Room::Update, from enemy i on: the enemies
\* updated. hs[i]: the heading enemy i draws if it changes direction in this
\* update; w: the boss's weave.
RECURSIVE UpdateEnemies(_, _, _, _, _, _)
UpdateEnemies(room, dt, p, hs, w, i) ==
  IF i > Len(room.enemies)
    THEN <<>>
    ELSE <<IF room.enemies[i].active
             THEN KeepInside(room, EnemyDispatchUpdate(room.enemies[i], dt, p, hs[i], w))
             ELSE room.enemies[i]>>
           \o UpdateEnemies(room, dt, p, hs, w, i + 1)

\* variant: a dead enemy is taken off the roster
RoomUpdateDropsDead(room, dt, p, hs, w) ==
  LET es == SelectSeq(UpdateEnemies(room, dt, p, hs, w, 1), LAMBDA e : e.active)
  IN [room EXCEPT !.enemies = es,
                  !.cleared = \A i \in 1..Len(es) : ~es[i].active]

\* variant: the room counts as cleared once some enemy is inactive
RoomUpdateSomeDead(room, dt, p, hs, w) ==
  LET es == UpdateEnemies(room, dt, p, hs, w, 1)
  IN [room EXCEPT !.enemies = es,
                  !.cleared = \E i \in 1..Len(es) : ~es[i].active]

RoomUpdate(room, dt, p, hs, w) ==
  LET es == UpdateEnemies(room, dt, p, hs, w, 1)
  IN [room EXCEPT !.enemies = es,
                  !.cleared = \A i \in 1..Len(es) : ~es[i].active]

\* ---------------------------------------------------------------- Game
\* lowest index of an inactive slot, 0 when every slot is active
\* variant: the scan takes the last inactive slot
LastInactive(pool) ==
  IF \A i \in 1..Len(pool) : pool[i].active
    THEN 0
    ELSE CHOOSE i \in 1..Len(pool) :
           /\ ~pool[i].active
           /\ \A j \in (i + 1)..Len(pool) : pool[j].active

FirstInactive(pool) ==
  IF \A i \in 1..Len(pool) : pool[i].active
    THEN 0
    ELSE CHOOSE i \in 1..Len(pool) :
           /\ ~pool[i].active
           /\ \A j \in 1..(i - 1) : pool[j].active

\* variant: the projectile starts at the source
SpawnXAtSource(sourceX, dir) == sourceX

SpawnX(sourceX, dir) ==
  CASE dir = "RIGHT" -> sourceX + SPAWN_OFFSET
    [] dir = "LEFT" -> sourceX - SPAWN_OFFSET
    [] OTHER -> sourceX

SpawnY(sourceY, dir) ==
  CASE dir = "DOWN" -> sourceY + SPAWN_OFFSET
    [] dir = "UP" -> sourceY - SPAWN_OFFSET
    [] OTHER -> sourceY

FireProjectile(pool, sourceX, sourceY, dir, isEnemy) ==
  LET i == FirstInactive(pool)
  IN IF i = 0
       THEN pool
       ELSE [pool EXCEPT ![i] = ProjectileFire(pool[i], SpawnX(sourceX, dir),
                                               SpawnY(sourceY, dir), dir, isEnemy)]

\* Handle enemy shooting: the roster in order, from enemy i on.
\* st = [enemies, pool]
RECURSIVE EnemyShooting(_, _)
EnemyShooting(st, i) ==
  IF i > Len(st.enemies)
    THEN st
    ELSE LET e == st.enemies[i]
         IN IF e.active /\ EnemyCanShoot(e)
              THEN EnemyShooting(
                     [enemies |-> [st.enemies EXCEPT ![i] = EnemyResetShootCooldown(e)],
                      pool |-> FireProjectile(st.pool, e.x, e.y, e.facing, TRUE)],
                     i + 1)
              ELSE EnemyShooting(st, i + 1)

\* index of the first enemy of the roster, from j on, that is active and collides
\* with the projectile; 0 when there is none
RECURSIVE FirstHit(_, _, _)
FirstHit(enemies, proj, j) ==
  IF j > Len(enemies)
    THEN 0
    ELSE IF enemies[j].active /\ IsColliding(proj, enemies[j])
           THEN j
           ELSE FirstHit(enemies, proj, j + 1)

\* variant: a player projectile damages every active enemy it overlaps
ResolveSlotAll(st, room, dt, i) ==
  IF ~st.pool[i].active
    THEN st
    ELSE
      LET pr == ProjectileUpdate(st.pool[i], dt)
          off == [pr EXCEPT !.active = FALSE]
      IN IF ~ContainsPoint(room, pr.x, pr.y)
           THEN [st EXCEPT !.pool[i] = off]
           ELSE IF ~pr.isEnemyProjectile
             THEN IF FirstHit(st.enemies, pr, 1) = 0
                    THEN [st EXCEPT !.pool[i] = pr]
                    ELSE [st EXCEPT !.pool[i] = off,
                                    !.enemies = [k \in 1..Len(st.enemies) |->
                                       IF st.enemies[k].active /\ IsColliding(pr, st.enemies[k])
                                         THEN TakeDamage(st.enemies[k], pr.damage)
                                         ELSE st.enemies[k]]]
             ELSE IF IsColliding(pr, st.player)
                    THEN [st EXCEPT !.pool[i] = off,
                                    !.player = TakeDamage(st.player, pr.damage)]
                    ELSE [st EXCEPT !.pool[i] = pr]

\* variant: every projectile is tested against the enemies, then against the player
ResolveSlotAnyFaction(st, room, dt, i) ==
  IF ~st.pool[i].active
    THEN st
    ELSE
      LET pr == ProjectileUpdate(st.pool[i], dt)
          off == [pr EXCEPT !.active = FALSE]
          j == FirstHit(st.enemies, pr, 1)
      IN IF ~ContainsPoint(room, pr.x, pr.y)
           THEN [st EXCEPT !.pool[i] = off]
           ELSE IF j # 0
             THEN [st EXCEPT !.pool[i] = off,
                             !.enemies[j] = TakeDamage(st.enemies[j], pr.damage)]
             ELSE IF IsColliding(pr, st.player)
                    THEN [st EXCEPT !.pool[i] = off,
                                    !.player = TakeDamage(st.player, pr.damage)]
                    ELSE [st EXCEPT !.pool[i] = pr]

\* variant: a projectile that has left the room is resolved like any other
ResolveSlotUnbounded(st, room, dt, i) ==
  IF ~st.pool[i].active
    THEN st
    ELSE
      LET pr == ProjectileUpdate(st.pool[i], dt)
          off == [pr EXCEPT !.active = FALSE]
      IN IF ~pr.isEnemyProjectile
           THEN LET j == FirstHit(st.enemies, pr, 1)
                IN IF j = 0
                     THEN [st EXCEPT !.pool[i] = pr]
                     ELSE [st EXCEPT !.pool[i] = off,
                                     !.enemies[j] = TakeDamage(st.enemies[j], pr.damage)]
           ELSE IF IsColliding(pr, st.player)
                  THEN [st EXCEPT !.pool[i] = off,
                                  !.player = TakeDamage(st.player, pr.damage)]
                  ELSE [st EXCEPT !.pool[i] = pr]

\* one iteration of the loop of UpdateProjectiles, for slot i.
\* st = [pool, enemies, player]; room gives the bounds
ResolveSlot(st, room, dt, i) ==
  IF ~st.pool[i].active
    THEN st
    ELSE
      LET pr == ProjectileUpdate(st.pool[i], dt)
          off == [pr EXCEPT !.active = FALSE]
      IN IF ~ContainsPoint(room, pr.x, pr.y)
           THEN [st EXCEPT !.pool[i] = off]
           ELSE IF ~pr.isEnemyProjectile
             THEN LET j == FirstHit(st.enemies, pr, 1)
                  IN IF j = 0
                       THEN [st EXCEPT !.pool[i] = pr]
                       ELSE [st EXCEPT !.pool[i] = off,
                                       !.enemies[j] = TakeDamage(st.enemies[j], pr.damage)]
             ELSE IF IsColliding(pr, st.player)
                    THEN [st EXCEPT !.pool[i] = off,
                                    !.player = TakeDamage(st.player, pr.damage)]
                    ELSE [st EXCEPT !.pool[i] = pr]

\* the slots of the pool that are active, and the lowest index of a set of slots
ActiveSlots(pool) == {i \in 1..Len(pool) : pool[i].active}

LowestOf(S) == CHOOSE i \in S : \A j \in S : i <= j

\* The loop of UpdateProjectiles visits the slots in index order and skips the
\* inactive ones; no iteration activates a slot, so the slots it acts on are the
\* ones active when it starts, todo being those not yet visited.
RECURSIVE UpdateProjectilesFrom(_, _, _, _)
UpdateProjectilesFrom(st, room, dt, todo) ==
  IF todo = {}
    THEN st
    ELSE LET i == LowestOf(todo)
         IN UpdateProjectilesFrom(ResolveSlot(st, room, dt, i), room, dt, todo \ {i})

\* variant: the loop visits the slots from the highest index down
HighestOf(S) == CHOOSE i \in S : \A j \in S : i >= j

RECURSIVE UpdateProjectilesDownFrom(_, _, _, _)
UpdateProjectilesDownFrom(st, room, dt, todo) ==
  IF todo = {}
    THEN st
    ELSE LET i == HighestOf(todo)
         IN UpdateProjectilesDownFrom(ResolveSlot(st, room, dt, i), room, dt, todo \ {i})

UpdateProjectilesReverse(st, room, dt) ==
  UpdateProjectilesDownFrom(st, room, dt, ActiveSlots(st.pool))

UpdateProjectiles(st, room, dt) ==
  UpdateProjectilesFrom(st, room, dt, ActiveSlots(st.pool))

\* A game value g is the record of Game's fields:
\* [isMainMenu, isGameOver, player, rooms, currentRoom, projectiles].
\* currentRoom is the 0-based index of the source; rooms[currentRoom + 1] is
\* rooms[currentRoom] of the source.
CurrentRoomOf(g) == g.rooms[g.currentRoom + 1]

\* Update player; keep player inside current room
MovePlayer(g, keys, dt) ==
  LET p == PlayerUpdate(g.player, keys, dt)
      room == CurrentRoomOf(g)
  IN [g EXCEPT !.player =
        [p EXCEPT !.x = Clamp(p.x, room.x + p.radius, room.x + room.width - p.radius),
                  !.y = Clamp(p.y, room.y + p.radius, room.y + room.height - p.radius)]]

\* variant: the cooldown is reset only when a slot was free for the shot
PlayerShootingIfFired(g, keys) ==
  IF keys.SPACE /\ PlayerCanShoot(g.player) /\ FirstInactive(g.projectiles) # 0
    THEN [g EXCEPT !.projectiles = FireProjectile(g.projectiles, g.player.x, g.player.y,
                                                  g.player.facing, FALSE),
                   !.player = PlayerResetShootCooldown(g.player)]
    ELSE g

\* Handle player shooting
PlayerShooting(g, keys) ==
  IF keys.SPACE /\ PlayerCanShoot(g.player)
    THEN [g EXCEPT !.projectiles = FireProjectile(g.projectiles, g.player.x, g.player.y,
                                                  g.player.facing, FALSE),
                   !.player = PlayerResetShootCooldown(g.player)]
    ELSE g

\* Handle enemy shooting
EnemiesShooting(g) ==
  LET st == EnemyShooting([enemies |-> CurrentRoomOf(g).enemies, pool |-> g.projectiles], 1)
  IN [g EXCEPT !.rooms[g.currentRoom + 1].enemies = st.enemies,
               !.projectiles = st.pool]

\* Update projectiles
ProjectilesStage(g, dt) ==
  LET st == UpdateProjectiles([pool |-> g.projectiles,
                               enemies |-> CurrentRoomOf(g).enemies,
                               player |-> g.player], CurrentRoomOf(g), dt)
  IN [g EXCEPT !.projectiles = st.pool,
               !.rooms[g.currentRoom + 1].enemies = st.enemies,
               !.player = st.player]

\* variant: every room of the level is updated
RoomStageAll(g, dt, hs, w) ==
  [g EXCEPT !.rooms = <<RoomUpdate(g.rooms[1], dt, g.player, hs, w),
                        RoomUpdate(g.rooms[2], dt, g.player, hs, w),
                        RoomUpdate(g.rooms[3], dt, g.player, hs, w),
                        RoomUpdate(g.rooms[4], dt, g.player, hs, w),
                        RoomUpdate(g.rooms[5], dt, g.player, hs, w)>>]

\* Update current room
RoomStage(g, dt, hs, w) ==
  [g EXCEPT !.rooms[g.currentRoom + 1] = RoomUpdate(CurrentRoomOf(g), dt, g.player, hs, w)]

\* has the player passed the exit boundary of the room
PastExit(room, p) == p.x > room.x + room.width - EXIT_MARGIN

\* variant: the player is not moved on entering the next room
NextRoomKeepsX(g) == [g EXCEPT !.currentRoom = g.currentRoom + 1]

\* currentRoom++ and the player put at the entry of the new room
NextRoom(g) ==
  [g EXCEPT !.currentRoom = g.currentRoom + 1,
            !.player.x = g.rooms[g.currentRoom + 2].x + EXIT_MARGIN]

\* variant: the exit of an uncleared room is open
BlockExitOff(g, room) == g

\* Block player from leaving if enemies still alive
BlockExit(g, room) ==
  [g EXCEPT !.player.x = room.x + room.width - EXIT_MARGIN]

\* variant: the player leaves the room whether it is cleared or not
RoomTransitionUncleared(g) ==
  IF PastExit(CurrentRoomOf(g), g.player) /\ g.currentRoom < Len(g.rooms) - 1
    THEN NextRoom(g)
    ELSE g

\* Check for room transition
RoomTransition(g) ==
  LET room == CurrentRoomOf(g)
  IN IF room.cleared /\ PastExit(room, g.player)
       THEN IF g.currentRoom < Len(g.rooms) - 1 THEN NextRoom(g) ELSE g
       ELSE IF ~room.cleared /\ PastExit(room, g.player)
              THEN BlockExit(g, room)
              ELSE g

\* variant: only the victory condition is checked
WinLoseVictoryOnly(g) ==
  IF g.currentRoom = Len(g.rooms) - 1 /\ CurrentRoomOf(g).cleared
    THEN [g EXCEPT !.isGameOver = TRUE]
    ELSE g

\* variant: the game is won on entering the last room
WinLoseOnEntry(g) ==
  LET g1 == IF g.currentRoom = Len(g.rooms) - 1
              THEN [g EXCEPT !.isGameOver = TRUE]
              ELSE g
  IN IF g1.player.health <= 0 THEN [g1 EXCEPT !.isGameOver = TRUE] ELSE g1

\* Check win/lose conditions
WinLose(g) ==
  LET g1 == IF g.currentRoom = Len(g.rooms) - 1 /\ CurrentRoomOf(g).cleared
              THEN [g EXCEPT !.isGameOver = TRUE]
              ELSE g
  IN IF g1.player.health <= 0 THEN [g1 EXCEPT !.isGameOver = TRUE] ELSE g1

\* the tick up to and including the room update
BeforeTransition(g, keys, dt, hs, w) ==
  RoomStage(ProjectilesStage(EnemiesShooting(PlayerShooting(MovePlayer(g, keys, dt), keys)),
                             dt), dt, hs, w)

UpdateGame(g, keys, dt, hs, w) ==
  WinLose(RoomTransition(BeforeTransition(g, keys, dt, hs, w)))

\* roster: a sequence of [x, y, h], the position and first heading drawn for each
\* enemy of the room
RECURSIVE AddEnemies(_, _, _)
AddEnemies(room, roster, j) ==
  IF j > Len(roster)
    THEN room
    ELSE AddEnemies(AddEnemy(room, room.x + roster[j].x, roster[j].y, roster[j].h),
                    roster, j + 1)

\* variant: the reset leaves the projectile pool as it is
ResetGameKeepsPool(g, layout) ==
  [g EXCEPT
     !.player = NewPlayer(SCREEN_WIDTH \div 2, SCREEN_HEIGHT \div 2),
     !.currentRoom = 0,
     !.rooms = [i \in 1..ROOM_COUNT |->
                  LET room == Room((i - 1) * ROOM_WIDTH, 0, ROOM_WIDTH, ROOM_HEIGHT,
                                   i = ROOM_COUNT)
                  IN IF i = ROOM_COUNT
                       THEN AddBoss(room, room.x + BOSS_X, BOSS_Y, layout.boss)
                       ELSE AddEnemies(room, layout.rosters[i], 1)],
     !.isGameOver = FALSE]

\* layout: what the random source yields during the reset,
\* [rosters: one roster per regular room, boss: the boss's first heading]
ResetGame(g, layout) ==
  [g EXCEPT
     !.player = NewPlayer(SCREEN_WIDTH \div 2, SCREEN_HEIGHT \div 2),
     !.currentRoom = 0,
     !.rooms = [i \in 1..ROOM_COUNT |->
                  LET room == Room((i - 1) * ROOM_WIDTH, 0, ROOM_WIDTH, ROOM_HEIGHT,
                                   i = ROOM_COUNT)
                  IN IF i = ROOM_COUNT
                       THEN AddBoss(room, room.x + BOSS_X, BOSS_Y, layout.boss)
                       ELSE AddEnemies(room, layout.rosters[i], 1)],
     !.projectiles = [i \in 1..Len(g.projectiles) |->
                        [g.projectiles[i] EXCEPT !.active = FALSE]],
     !.isGameOver = FALSE]

\* Game::Game
NewGame(layout) ==
  ResetGame([isMainMenu |-> TRUE, isGameOver |-> FALSE,
             player |-> NewPlayer(SCREEN_WIDTH \div 2, SCREEN_HEIGHT \div 2),
             rooms |-> <<>>, currentRoom |-> 0,
             projectiles |-> [i \in 1..POOL_SIZE |-> NewProjectile]], layout)

\* Game::DrawGame: is "Defeat all enemies to proceed!" drawn for game g
BlockedExit(g) ==
  LET currentRoomRef == CurrentRoomOf(g)
  IN /\ ~currentRoomRef.cleared
     /\ g.player.x > currentRoomRef.x + currentRoomRef.width - EXIT_MARGIN

\* variant: the game-over screen looks at the last room first
OutcomeVictoryFirst(g) ==
  IF g.currentRoom = Len(g.rooms) - 1 /\ CurrentRoomOf(g).cleared
    THEN "victory"
    ELSE "defeat"

\* DrawGameOver: the outcome shown on the game-over screen
Outcome(g) == IF g.player.health <= 0 THEN "defeat" ELSE "victory"

\* ---------------------------------------------------------------- inputs
Keys(w, s, a, d, space) == [W |-> w, S |-> s, A |-> a, D |-> d, SPACE |-> space]

NoKeys == Keys(FALSE, FALSE, FALSE, FALSE, FALSE)
KeyW == Keys(TRUE, FALSE, FALSE, FALSE, FALSE)
KeyS == Keys(FALSE, TRUE, FALSE, FALSE, FALSE)
KeyA == Keys(FALSE, FALSE, TRUE, FALSE, FALSE)
KeyD == Keys(FALSE, FALSE, FALSE, TRUE, FALSE)
KeySpace == Keys(FALSE, FALSE, FALSE, FALSE, TRUE)
KeyDSpace == Keys(FALSE, FALSE, FALSE, TRUE, TRUE)
KeyWS == Keys(TRUE, TRUE, FALSE, FALSE, FALSE)
KeyAD == Keys(FALSE, FALSE, TRUE, TRUE, FALSE)

\* the key states of a frame the model draws from
PlayKeys == {NoKeys, KeyW, KeyS, KeyA, KeyD, KeySpace, KeyDSpace, KeyWS, KeyAD}

\* the frame times (GetFrameTime) the model draws from, in tenths of a second
DTs == {0, 3, 9, 15}

\* the headings the random source yields: right, up
HeadRight == <<ENEMY_SPEED, 0>>
HeadUp == <<0, -ENEMY_SPEED>>
Headings == {HeadRight, HeadUp}

\* the boss's weave terms (the values at GetTime() = 0 and at GetTime() = 2 * pi)
WeaveA == <<ENEMY_SPEED \div 2, 0>>
Weaves == {WeaveA}

\* one draw of headings for a room update: every enemy that changes direction
\* in the update draws the same heading
DrawOf(h) == [i \in 1..ENEMY_COUNT_MAX |-> h]
HeadingDraws == {DrawOf(h) : h \in Headings}

\* the levels the random source yields on a reset. In LayoutA and LayoutB every
\* enemy of a room starts at (700, 300) of the room, heading right; in LayoutC
\* the enemies of room 0 start at (598, 100), heading up.
RosterOf(n) == [i \in 1..n |-> [x |-> 700, y |-> 300, h |-> HeadRight]]

RosterUp == [i \in 1..ENEMY_COUNT_MIN |-> [x |-> 598, y |-> 100, h |-> HeadUp]]

LayoutA ==
  [rosters |-> [i \in 1..(ROOM_COUNT - 1) |-> RosterOf(ENEMY_COUNT_MIN)], boss |-> HeadRight]

LayoutB ==
  [rosters |-> [i \in 1..(ROOM_COUNT - 1) |->
                  IF i = 1 THEN RosterOf(ENEMY_COUNT_MAX) ELSE RosterOf(ENEMY_COUNT_MIN)],
   boss |-> HeadRight]

LayoutC ==
  [rosters |-> [i \in 1..(ROOM_COUNT - 1) |->
                  IF i = 1 THEN RosterUp ELSE RosterOf(ENEMY_COUNT_MIN)],
   boss |-> HeadRight]

Layouts == {LayoutA, LayoutB, LayoutC}

\* ---------------------------------------------------------------- state
VARIABLES isMainMenu, isGameOver, player, rooms, currentRoom, projectiles, last

vars == <<isMainMenu, isGameOver, player, rooms, currentRoom, projectiles, last>>

Game ==
  [isMainMenu |-> isMainMenu, isGameOver |-> isGameOver, player |-> player,
   rooms |-> rooms, currentRoom |-> currentRoom, projectiles |-> projectiles]

SetGame(g) ==
  /\ isMainMenu' = g.isMainMenu
  /\ isGameOver' = g.isGameOver
  /\ player' = g.player
  /\ rooms' = g.rooms
  /\ currentRoom' = g.currentRoom
  /\ projectiles' = g.projectiles

SetInit(g) ==
  /\ isMainMenu = g.isMainMenu
  /\ isGameOver = g.isGameOver
  /\ player = g.player
  /\ rooms = g.rooms
  /\ currentRoom = g.currentRoom
  /\ projectiles = g.projectiles

\* last: what the last frame did. branch: which branch of Game::Update ran ("new"
\* for the game as constructed, "replay" for a game a script led to); confirm: IsKeyPressed(KEY_ENTER) in that frame;
\* n: the number of Playing ticks taken so far; for a Playing tick, cursor is currentRoom
\* at the start of the tick, exitX, exitY and exitCleared are the player's
\* position and the current room's cleared flag when the room transition is
\* checked. In the specifications of the pool and of the entities further down,
\* last records the call just made.
NoTick == [cursor |-> 0, exitX |-> 0, exitY |-> 0, exitCleared |-> FALSE]

\* ---------------------------------------------------------------- replay
\* The main loop run on a given sequence of frames: script[i] = [keys, dt] is a
\* Playing frame; the replay ends with the script or when the game is over.
\* Every heading drawn in the replay is h and every weave is WeaveA.
RECURSIVE Replay(_, _, _, _)
Replay(g, script, h, i) ==
  IF g.isGameOver \/ i > Len(script)
    THEN g
    ELSE Replay(UpdateGame(g, script[i].keys, script[i].dt, DrawOf(h), WeaveA),
                script, h, i + 1)

Frame(keys, dt) == [keys |-> keys, dt |-> dt]

Times(n, frames) == [i \in 1..(n * Len(frames)) |-> frames[((i - 1) % Len(frames)) + 1]]

\* the game after the confirm frame that leaves the main menu
Started(layout) == [NewGame(layout) EXCEPT !.isMainMenu = FALSE]

Space9 == <<Frame(KeySpace, 9)>>
Right9 == <<Frame(KeyD, 9)>>

\* room 0 of LayoutA cleared from the start position but for the last hit
ToLastEnemy == Times(9, Space9)

\* rooms 0 to 3 of LayoutA cleared and crossed: the player enters the boss room
ToBossRoom ==
  Times(10, Space9) \o Times(2, Right9) \o Times(12, Space9) \o Times(4, Right9)
    \o Times(12, Space9) \o Times(4, Right9) \o Times(12, Space9) \o Times(4, Right9)

\* the player walks to the exit of the boss room and trades shots with the boss
\* at the wall, down to boss health 10 and player health 30
ToBossDuel ==
  ToBossRoom \o Times(6, Right9)
    \o Times(14, <<Frame(NoKeys, 15), Frame(KeySpace, 0)>>) \o <<Frame(NoKeys, 15)>>

\* as ToBossDuel, then the player takes five more hits: player health 5
ToBossDraw ==
  ToBossRoom \o Times(6, Right9)
    \o Times(14, <<Frame(NoKeys, 15), Frame(KeySpace, 0)>>)
    \o Times(5, <<Frame(NoKeys, 15), Frame(NoKeys, 0)>>) \o <<Frame(NoKeys, 15)>>

\* LayoutB: the player walks to the exit of room 0, where the six enemies stand,
\* and takes three volleys: player health 10
ToLastVolley ==
  Times(3, Right9) \o Times(3, <<Frame(NoKeys, 0), Frame(NoKeys, 15)>>)

\* room 0 of LayoutA cleared, the player one step from the exit
ToCleared == Times(10, Space9) \o Right9

\* LayoutC: the player goes to the top of the exit of room 0, is blocked there,
\* turns left and shoots the enemies at the top wall, but for the last hit
ToBlockedLastEnemy ==
  <<Frame(KeyW, 15), Frame(KeyD, 15), Frame(KeyD, 15), Frame(KeyA, 0)>>
    \o Times(8, <<Frame(KeySpace, 3)>>)

\* The initial states: the game as constructed, for each layout, and the games
\* that the scripts above lead to from it.
ReplayedGames ==
  {Replay(Started(LayoutA), script, HeadRight, 1) :
     script \in {ToLastEnemy, ToCleared, ToBossRoom, ToBossDuel, ToBossDraw}}
    \cup {Replay(Started(LayoutB), ToLastVolley, HeadRight, 1),
          Replay(Started(LayoutC), ToBlockedLastEnemy, HeadUp, 1)}

\* the number of Playing ticks taken from an initial state
MaxTicks == 2

Init ==
  \/ \E layout \in Layouts :
       /\ SetInit(NewGame(layout))
       /\ last = [branch |-> "new", confirm |-> FALSE, n |-> 0, tick |-> NoTick]
  \/ \E g \in ReplayedGames :
       /\ SetInit(g)
       /\ last = [branch |-> "replay", confirm |-> FALSE, n |-> 0, tick |-> NoTick]

\* variant: the main menu is left on any frame
UpdateMainMenuAnyFrame ==
  /\ isMainMenu
  /\ \E confirm \in BOOLEAN :
       /\ isMainMenu' = FALSE
       /\ last' = [branch |-> "menu", confirm |-> confirm, n |-> last.n, tick |-> NoTick]
  /\ UNCHANGED <<isGameOver, player, rooms, currentRoom, projectiles>>

\* Game::Update, main menu branch
UpdateMainMenu ==
  /\ isMainMenu
  /\ \E confirm \in BOOLEAN :
       /\ isMainMenu' = IF confirm THEN FALSE ELSE isMainMenu
       /\ last' = [branch |-> "menu", confirm |-> confirm, n |-> last.n, tick |-> NoTick]
  /\ UNCHANGED <<isGameOver, player, rooms, currentRoom, projectiles>>

\* Game::Update, game over branch
UpdateGameOver ==
  /\ ~isMainMenu
  /\ isGameOver
  /\ \E confirm \in BOOLEAN :
       /\ IF confirm
            THEN \E layout \in Layouts :
                   SetGame(ResetGame([Game EXCEPT !.isMainMenu = TRUE], layout))
            ELSE UNCHANGED <<isMainMenu, isGameOver, player, rooms, currentRoom, projectiles>>
       /\ last' = [branch |-> "over", confirm |-> confirm, n |-> last.n, tick |-> NoTick]

\* Game::Update, playing branch
UpdatePlaying ==
  /\ ~isMainMenu
  /\ ~isGameOver
  /\ last.n < MaxTicks
  /\ \E keys \in PlayKeys, dt \in DTs, hs \in HeadingDraws, w \in Weaves :
       \E b \in {BeforeTransition(Game, keys, dt, hs, w)} :
         \E g \in {WinLose(RoomTransition(b))} :
           /\ SetGame(g)
           /\ last' = [branch |-> "play", confirm |-> FALSE, n |-> last.n + 1,
                       tick |-> [cursor |-> currentRoom, exitX |-> b.player.x,
                                 exitY |-> b.player.y,
                                 exitCleared |-> CurrentRoomOf(b).cleared]]

Next == UpdateMainMenu \/ UpdateGameOver \/ UpdatePlaying

Spec == Init /\ [][Next]_vars

\* ---------------------------------------------------------------- the pool
\* Game::FireProjectile on its own: fire requests applied to a pool, starting
\* from the pool as constructed and from pools left by earlier requests and
\* deactivations, the full pool among them.

\* pool after k more requests
RECURSIVE Volley(_, _)
Volley(pool, k) ==
  IF k = 0 \/ FirstInactive(pool) = 0
    THEN pool
    ELSE Volley(FireProjectile(pool, SCREEN_WIDTH \div 2, SCREEN_HEIGHT \div 2, "RIGHT",
                               k % 2 = 0), k - 1)

\* UpdateProjectiles: projectile.active = false
Expire(pool, i) == [pool EXCEPT ![i].active = FALSE]

FreshPool == NewGame(LayoutA).projectiles

FullPool == Volley(FreshPool, POOL_SIZE)

UsedPools ==
  {Volley(FreshPool, k) : k \in {1, 2, POOL_SIZE - 1}}
    \cup {FullPool}
    \cup {Expire(FullPool, i) : i \in {1, POOL_SIZE \div 2, POOL_SIZE}}
    \cup {Expire(Expire(FullPool, 3), 7)}

\* the requests: source positions, directions and factions
FireXs == {SCREEN_WIDTH \div 2, SCREEN_WIDTH - EXIT_MARGIN}
FireYs == {SCREEN_HEIGHT \div 2}

\* the number of fire requests made on an initial pool
MaxFires == 2

InitPool ==
  \/ /\ SetInit(Started(LayoutA))
     /\ last = [branch |-> "new", n |-> 0]
  \/ /\ \E pool \in UsedPools :
          SetInit([Started(LayoutA) EXCEPT !.projectiles = pool])
     /\ last = [branch |-> "replay", n |-> 0]

\* one call of Game::FireProjectile; last.pool is the pool before the call
Fire ==
  /\ last.n < MaxFires
  /\ \E sourceX \in FireXs, sourceY \in FireYs, dir \in Direction, isEnemy \in BOOLEAN :
       /\ projectiles' = FireProjectile(projectiles, sourceX, sourceY, dir, isEnemy)
       /\ last' = [branch |-> "fire", n |-> last.n + 1, pool |-> projectiles,
                   request |-> [x |-> sourceX, y |-> sourceY, dir |-> dir,
                                isEnemy |-> isEnemy]]
  /\ UNCHANGED <<isMainMenu, isGameOver, player, rooms, currentRoom>>

SpecPool == InitPool /\ [][Fire]_vars

\* ---------------------------------------------------------------- the entities
\* Entity::TakeDamage on its own: damage applied to a player, an enemy and a
\* boss as constructed, and again to what the damage left of them.
Amounts == {0, 1, PLAYER_DAMAGE \div 2, PLAYER_DAMAGE, 20, ENEMY_HEALTH, PLAYER_HEALTH,
            BOSS_HEALTH}

Constructed ==
  {NewPlayer(SCREEN_WIDTH \div 2, SCREEN_HEIGHT \div 2),
   NewEnemy(700, SCREEN_HEIGHT \div 2, HeadRight),
   NewBoss(BOSS_X, BOSS_Y, HeadRight)}

\* the number of TakeDamage calls made on a constructed entity
MaxHits == 3

InitEntity ==
  /\ SetInit(Started(LayoutA))
  /\ \E e \in Constructed : last = [branch |-> "new", n |-> 0, result |-> e]

\* one call of Entity::TakeDamage on the entity that the last call left
Damage ==
  /\ last.n < MaxHits
  /\ \E amount \in Amounts :
       last' = [branch |-> "damage", n |-> last.n + 1, entity |-> last.result,
                amount |-> amount, result |-> TakeDamage(last.result, amount)]
  /\ UNCHANGED <<isMainMenu, isGameOver, player, rooms, currentRoom, projectiles>>

SpecEntity == InitEntity /\ [][Damage]_vars

\* ---------------------------------------------------------------- collisions
\* Entity::IsColliding on its own: the test applied, both ways round, to pairs
\* of a player, an enemy, a boss and a projectile in flight, at places that put
\* the pair apart, overlapping and exactly touching.
Spots == {<<100, 100>>, <<120, 100>>, <<119, 100>>, <<121, 100>>, <<112, 116>>,
          <<108, 115>>, <<127, 100>>, <<124, 132>>, <<200, 100>>}

Bodies ==
  UNION {{NewPlayer(at[1], at[2]),
          NewEnemy(at[1], at[2], HeadRight),
          NewBoss(at[1], at[2], HeadRight),
          ProjectileFire(NewProjectile, at[1], at[2], "RIGHT", FALSE)} : at \in Spots}

InitCollide ==
  /\ SetInit(Started(LayoutA))
  /\ \E a \in Bodies, b \in Bodies : last = [branch |-> "pair", a |-> a, b |-> b]

\* a.IsColliding(b) and b.IsColliding(a)
Collide ==
  /\ last.branch = "pair"
  /\ last' = [branch |-> "collide", a |-> last.a, b |-> last.b,
              hit |-> IsColliding(last.a, last.b),
              back |-> IsColliding(last.b, last.a)]
  /\ UNCHANGED <<isMainMenu, isGameOver, player, rooms, currentRoom, projectiles>>

SpecCollide == InitCollide /\ [][Collide]_vars

\* ---------------------------------------------------------------- one room
\* Room::Update on its own: a room as constructed, with no enemy, one or two
\* enemies, or a boss; between updates a projectile's hit takes 10 health from
\* an active enemy, as in UpdateProjectiles.
EmptyRoom == Room(0, 0, ROOM_WIDTH, ROOM_HEIGHT, FALSE)

BuiltRooms ==
  {EmptyRoom,
   AddEnemy(EmptyRoom, 100, 100, HeadRight),
   AddEnemy(AddEnemy(EmptyRoom, 100, 100, HeadRight), 200, 200, HeadUp),
   AddBoss(Room(0, 0, ROOM_WIDTH, ROOM_HEIGHT, TRUE), BOSS_X, BOSS_Y, HeadRight)}

\* enemy->TakeDamage(projectile.damage) on enemy j of the room
HitEnemy(room, j) ==
  [room EXCEPT !.enemies[j] = TakeDamage(room.enemies[j], PLAYER_DAMAGE)]

\* the number of updates and hits made on a constructed room
MaxRoomSteps == 5

InitRoom ==
  /\ SetInit(Started(LayoutA))
  /\ \E room \in BuiltRooms : last = [branch |-> "new", n |-> 0, room |-> room]

\* one call of Room::Update, with the player at the centre of the room
UpdateRoom ==
  /\ last.n < MaxRoomSteps
  /\ \E dt \in {0, 9}, hs \in HeadingDraws, w \in Weaves :
       last' = [branch |-> "update", n |-> last.n + 1,
                room |-> RoomUpdate(last.room, dt, player, hs, w)]
  /\ UNCHANGED <<isMainMenu, isGameOver, player, rooms, currentRoom, projectiles>>

\* a hit on an active enemy of the room
HitRoom ==
  /\ last.n < MaxRoomSteps
  /\ \E j \in 1..Len(last.room.enemies) :
       /\ last.room.enemies[j].active
       /\ last' = [branch |-> "hit", n |-> last.n + 1, room |-> HitEnemy(last.room, j)]
  /\ UNCHANGED <<isMainMenu, isGameOver, player, rooms, currentRoom, projectiles>>

SpecRoom == InitRoom /\ [][UpdateRoom \/ HitRoom]_vars

\* ---------------------------------------------------------------- shooters
\* Player::Update, Enemy::Update, Boss::Update and the cooldown operations on
\* their own: a player, an enemy and a boss as constructed, updated with the
\* player placed far from the enemy, near it, and exactly 150 units from where
\* the enemy and the boss are constructed; the cooldown reset at any time.
Shooters ==
  {[kind |-> "player", unit |-> NewPlayer(100, 100)],
   [kind |-> "enemy", unit |-> NewEnemy(200, 200, HeadRight)],
   [kind |-> "enemy", unit |-> NewBoss(BOSS_X, BOSS_Y, HeadRight)]}

\* where the player stands during an enemy's update
Targets == {<<500, 500>>, <<220, 220>>, <<290, 320>>, <<291, 320>>, <<490, 420>>,
            <<490, 421>>}

ShooterDTs == {0, 1, 3}

\* the number of updates and resets made on a constructed shooter
MaxShooterSteps == 3

InitShooter ==
  /\ SetInit(Started(LayoutA))
  /\ \E sh \in Shooters :
       last = [branch |-> "new", n |-> 0, kind |-> sh.kind, unit |-> sh.unit]

\* one call of Player::Update
PlayerTick ==
  /\ last.n < MaxShooterSteps
  /\ last.kind = "player"
  /\ \E keys \in {NoKeys, KeyD}, dt \in ShooterDTs :
       last' = [branch |-> "step", n |-> last.n + 1, kind |-> last.kind,
                unit |-> PlayerUpdate(last.unit, keys, dt)]
  /\ UNCHANGED <<isMainMenu, isGameOver, player, rooms, currentRoom, projectiles>>

\* one call of Enemy::Update or Boss::Update; last.old is the enemy before the
\* call and last.target the player passed to it
EnemyTick ==
  /\ last.n < MaxShooterSteps
  /\ last.kind = "enemy"
  /\ \E at \in Targets, dt \in ShooterDTs, h \in Headings, w \in Weaves :
       LET target == NewPlayer(at[1], at[2])
       IN last' = [branch |-> "step", n |-> last.n + 1, kind |-> last.kind,
                   old |-> last.unit, target |-> target,
                   unit |-> EnemyDispatchUpdate(last.unit, dt, target, h, w)]
  /\ UNCHANGED <<isMainMenu, isGameOver, player, rooms, currentRoom, projectiles>>

\* one call of ResetShootCooldown
ResetCooldown ==
  /\ last.n < MaxShooterSteps
  /\ last' = [branch |-> "reset", n |-> last.n + 1, kind |-> last.kind,
              unit |-> IF last.kind = "player"
                         THEN PlayerResetShootCooldown(last.unit)
                         ELSE EnemyResetShootCooldown(last.unit)]
  /\ UNCHANGED <<isMainMenu, isGameOver, player, rooms, currentRoom, projectiles>>

SpecShooter == InitShooter /\ [][PlayerTick \/ EnemyTick \/ ResetCooldown]_vars

\* ---------------------------------------------------------------- resolution
\* Game::UpdateProjectiles on its own: the projectile stage of a Playing tick,
\* applied to the game as the stages before it leave it (player moved, player
\* and enemies have fired), for every input of the tick, from the games as
\* started and from the games the scripts lead to.

\* a level whose first room has its enemies below the top wall, heading up
RosterAmbush == [i \in 1..ENEMY_COUNT_MIN |-> [x |-> 598, y |-> 257, h |-> HeadUp]]

LayoutD ==
  [rosters |-> [i \in 1..(ROOM_COUNT - 1) |->
                  IF i = 1 THEN RosterAmbush ELSE RosterOf(ENEMY_COUNT_MIN)],
   boss |-> HeadRight]

\* LayoutA: the player waits while the enemies of room 0 walk to the right wall
ToWall == Times(2, <<Frame(NoKeys, 9)>>)

\* LayoutD: the player goes to the top wall and then right, to stand beside the
\* enemies that have reached the top wall
ToAmbush == <<Frame(KeyW, 15), Frame(KeyD, 10)>>

\* LayoutA: the player has walked to the exit of the boss room, the boss behind it
ToBossWall == ToBossRoom \o Times(6, Right9) \o <<Frame(NoKeys, 15)>>

\* LayoutA: one enemy of room 0 is one hit from death; the player lets the
\* cooldown run out and fires in a frame of no duration, so that the projectile
\* waits at its spawn point for the one fired next
ToDoubleShot == ToLastEnemy \o <<Frame(NoKeys, 3), Frame(KeySpace, 0)>>

SceneDTs == DTs \cup {1}

\* the tick up to the projectile stage
Staged(g, keys, dt) == EnemiesShooting(PlayerShooting(MovePlayer(g, keys, dt), keys))

ResolveBases ==
  {g \in {Started(layout) : layout \in Layouts \cup {LayoutD}} \cup ReplayedGames
          \cup {Replay(Started(LayoutA), ToWall, HeadRight, 1),
                Replay(Started(LayoutA), ToBossWall, HeadRight, 1),
                Replay(Started(LayoutA), ToDoubleShot, HeadRight, 1),
                Replay(Started(LayoutD), ToAmbush, HeadUp, 1)} : ~g.isGameOver}

\* the collision tests that the iteration for slot i makes: target is the index
\* of the enemy tested, 0 for the player; live is the target's active flag when
\* it is tested. The enemy loop tests IsColliding only after enemy->active and
\* stops at the first hit; the player is tested without a look at its flag.
TestsOfSlot(st, room, dt, i) ==
  LET pr == ProjectileUpdate(st.pool[i], dt)
  IN IF ~st.pool[i].active \/ ~ContainsPoint(room, pr.x, pr.y)
       THEN {}
       ELSE IF ~pr.isEnemyProjectile
         THEN LET j == FirstHit(st.enemies, pr, 1)
              IN {[slot |-> i, target |-> k, live |-> st.enemies[k].active] :
                    k \in {k \in 1..Len(st.enemies) :
                             st.enemies[k].active /\ (j = 0 \/ k <= j)}}
         ELSE {[slot |-> i, target |-> 0, live |-> st.player.active]}

\* the collision tests of the loop of UpdateProjectiles, todo being the slots
\* not yet visited
RECURSIVE TestsFrom(_, _, _, _)
TestsFrom(st, room, dt, todo) ==
  IF todo = {}
    THEN {}
    ELSE LET i == LowestOf(todo)
         IN TestsOfSlot(st, room, dt, i)
              \cup TestsFrom(ResolveSlot(st, room, dt, i), room, dt, todo \ {i})

InitResolve ==
  /\ \E g \in ResolveBases, keys \in PlayKeys, dt \in SceneDTs :
       /\ SetInit(Staged(g, keys, dt))
       /\ last = [branch |-> "scene", dt |-> dt]

\* one call of UpdateProjectiles; last.before is the game at the call and
\* last.tests the collision tests made
Resolve ==
  /\ last.branch = "scene"
  /\ SetGame(ProjectilesStage(Game, last.dt))
  /\ last' = [branch |-> "resolve", dt |-> last.dt, before |-> Game,
              tests |-> TestsFrom([pool |-> projectiles,
                                   enemies |-> CurrentRoomOf(Game).enemies,
                                   player |-> player],
                                  CurrentRoomOf(Game), last.dt, ActiveSlots(projectiles))]

SpecResolve == InitResolve /\ [][Resolve]_vars

\* ---------------------------------------------------------------- steering
\* Player::Update on its own: a player as constructed, updated with every
\* combination of the four direction keys held.
SteerKeys == {Keys(w, s, a, d, FALSE) : w \in BOOLEAN, s \in BOOLEAN, a \in BOOLEAN, d \in BOOLEAN}

SteerDTs == {0, 3}

\* the number of updates made on a constructed player
MaxSteers == 2

InitSteer ==
  /\ SetInit(Started(LayoutA))
  /\ last = [branch |-> "new", n |-> 0, unit |-> NewPlayer(SCREEN_WIDTH \div 2, SCREEN_HEIGHT \div 2)]

\* one call of Player::Update; last.old is the player before the call
Steer ==
  /\ last.n < MaxSteers
  /\ \E keys \in SteerKeys, dt \in SteerDTs :
       last' = [branch |-> "steer", n |-> last.n + 1, keys |-> keys, dt |-> dt,
                old |-> last.unit, unit |-> PlayerUpdate(last.unit, keys, dt)]
  /\ UNCHANGED <<isMainMenu, isGameOver, player, rooms, currentRoom, projectiles>>

SpecSteer == InitSteer /\ [][Steer]_vars

\* ---------------------------------------------------------------- fire rate
\* Playing ticks with the shots of each shooter timed. A shooter has shot in a
\* tick when the shooting stage has changed its cooldown, which only
\* ResetShootCooldown does there. The timing of a shooter is
\* [since, dtShot, gap]: since is the sum of the delta-times of the ticks after
\* its latest shot (-1 before its first shot), dtShot the delta-time of the
\* tick of that shot, gap the value of since, this tick included, at the
\* moment of a shot made in this tick (-1 when it made none, or its first).
NoShot == [since |-> -1, dtShot |-> 0, gap |-> -1, prevDt |-> 0, shot |-> FALSE]

\* t: the timing before the tick; shot: has the shooter shot in this tick
Timed(t, shot, dt) ==
  IF shot
    THEN [since |-> 0, dtShot |-> dt,
          gap |-> IF t.since < 0 THEN -1 ELSE t.since + dt,
          prevDt |-> t.dtShot, shot |-> TRUE]
    ELSE [since |-> IF t.since < 0 THEN -1 ELSE t.since + dt, dtShot |-> t.dtShot,
          gap |-> -1, prevDt |-> 0, shot |-> FALSE]

\* LayoutB: the player has walked to the exit of room 0, where the six enemies stand
ToExitB == Times(3, Right9)

RateBases ==
  {Replay(Started(LayoutA), ToBossWall, HeadRight, 1),
   Replay(Started(LayoutB), ToExitB, HeadRight, 1),
   Started(LayoutA)}

RateKeys == {NoKeys, KeySpace}

RateDTs == {0, 3, 15}

\* the number of Playing ticks timed from a base
MaxRateTicks == 3

InitRate ==
  /\ \E g \in RateBases : SetInit(g)
  /\ last = [branch |-> "base", n |-> 0, dt |-> 0, byPlayer |-> NoShot,
             byEnemy |-> [j \in 1..Len(rooms[currentRoom + 1].enemies) |-> NoShot],
             armed |-> [j \in 1..Len(rooms[currentRoom + 1].enemies) |-> FALSE]]

\* one Playing tick, Game::UpdateGame, with the shots timed; armed[j]: enemy j
\* of the current room is active and aggro when the enemies shoot
TimedTick ==
  /\ ~isGameOver
  /\ last.n < MaxRateTicks
  /\ \E keys \in RateKeys, dt \in RateDTs :
       LET moved == MovePlayer(Game, keys, dt)
           afterPlayer == PlayerShooting(moved, keys)
           afterEnemies == EnemiesShooting(afterPlayer)
           g == WinLose(RoomTransition(RoomStage(ProjectilesStage(afterEnemies, dt),
                                                 dt, DrawOf(HeadRight), WeaveA)))
           was == CurrentRoomOf(afterPlayer).enemies
           now == CurrentRoomOf(afterEnemies).enemies
       IN /\ SetGame(g)
          /\ last' = [branch |-> "tick", n |-> last.n + 1, dt |-> dt,
                      byPlayer |-> Timed(last.byPlayer,
                                         afterPlayer.player.shootCooldown
                                           # moved.player.shootCooldown, dt),
                      byEnemy |-> IF g.currentRoom = currentRoom
                                    THEN [j \in 1..Len(was) |->
                                            Timed(last.byEnemy[j],
                                                  now[j].shootCooldown # was[j].shootCooldown,
                                                  dt)]
                                    ELSE [j \in 1..Len(CurrentRoomOf(g).enemies) |-> NoShot],
                      armed |-> IF g.currentRoom = currentRoom
                                  THEN [j \in 1..Len(was) |-> was[j].active /\ was[j].aggro]
                                  ELSE [j \in 1..Len(CurrentRoomOf(g).enemies) |-> FALSE]]

SpecRate == InitRate /\ [][TimedTick]_vars

\* ---------------------------------------------------------------- shooting
\* The shooting stages of Game::UpdateGame on their own, applied to games whose
\* pool is full, nearly full or nearly empty. In play the cooldowns keep the
\* projectiles in flight far below the 100 slots of the pool, so a full pool is
\* an input of these stages that only a smaller pool would let a game reach.
JamBases == {g \in RateBases \cup ReplayedGames : ~g.isGameOver}

InitJam ==
  /\ \E g \in JamBases, pool \in UsedPools : SetInit([g EXCEPT !.projectiles = pool])
  /\ last = [branch |-> "base"]

\* the tick up to the projectile stage; last.before is the game at the start,
\* last.moved the game when the player shoots
Shoot ==
  /\ last.branch = "base"
  /\ \E keys \in RateKeys, dt \in RateDTs :
       /\ SetGame(Staged(Game, keys, dt))
       /\ last' = [branch |-> "shoot", keys |-> keys, before |-> Game,
                   moved |-> MovePlayer(Game, keys, dt)]

SpecJam == InitJam /\ [][Shoot]_vars

\* ---------------------------------------------------------------- properties
\* the session mode, by the order of the branches of Game::Update
Mode ==
  IF isMainMenu THEN "MainMenu" ELSE IF isGameOver THEN "GameOver" ELSE "Playing"

LastRoom == ROOM_COUNT - 1

\* right edge of the room with cursor c
RightEdge(c) == rooms[c + 1].x + rooms[c + 1].width

\* C1: the mode of the game as constructed is MainMenu; a frame changes the mode
\* only from MainMenu to Playing with confirm pressed, from Playing to GameOver,
\* or from GameOver to MainMenu with confirm pressed; the main-menu and
\* game-over flags are never both set.
C1_ModeChanges ==
  /\ (last.branch = "new" => Mode = "MainMenu")
  /\ [][Mode' # Mode =>
          \/ Mode = "MainMenu" /\ Mode' = "Playing" /\ last'.confirm
          \/ Mode = "Playing" /\ Mode' = "GameOver"
          \/ Mode = "GameOver" /\ Mode' = "MainMenu" /\ last'.confirm]_vars
  /\ [](~(isMainMenu /\ isGameOver))

\* a session was played to its end and confirm brought the main menu back
C1_Witness ==
  /\ Mode = "MainMenu"
  /\ last.branch = "over"
  /\ last.confirm
  /\ last.n >= 1

\* C2: a Playing tick ends in GameOver exactly when the player's health is 0 or
\* the cursor is on the last room and that room is cleared; otherwise it ends in
\* Playing.
C2_GameOverIff ==
  last.branch = "play" =>
    /\ ~isMainMenu
    /\ isGameOver <=> \/ player.health = 0
                      \/ currentRoom = LastRoom /\ rooms[ROOM_COUNT].cleared

\* the tick in which the player's health reaches 0, away from the last room
C2_Witness ==
  /\ last.branch = "play"
  /\ isGameOver
  /\ player.health = 0
  /\ currentRoom < LastRoom

\* C3: in a GameOver state with the player's health at 0 the outcome shown is
\* defeat, also when the last room is the current room and cleared; the outcome
\* shown is victory only with the player's health above 0, the cursor on the
\* last room and that room cleared.
C3_DefeatFirst ==
  Mode = "GameOver" =>
    /\ player.health = 0 => Outcome(Game) = "defeat"
    /\ Outcome(Game) = "victory" =>
         /\ player.health > 0
         /\ currentRoom = LastRoom
         /\ rooms[ROOM_COUNT].cleared

\* the boss and the player die in the same tick
C3_Witness ==
  /\ last.branch = "play"
  /\ Mode = "GameOver"
  /\ player.health = 0
  /\ currentRoom = LastRoom
  /\ rooms[ROOM_COUNT].cleared
  /\ Outcome(Game) = "defeat"

\* C4: the cursor is always an index of a room; a Playing tick leaves it or adds
\* one to it, and adds one only if the current room is cleared and the player is
\* within the exit margin of its right edge; on the last room it stays.
C4_CursorSteps ==
  /\ currentRoom \in 0..(Len(rooms) - 1)
  /\ last.branch = "play" =>
       /\ \/ currentRoom = last.tick.cursor
          \/ /\ currentRoom = last.tick.cursor + 1
             /\ last.tick.exitCleared
             /\ last.tick.exitX >= RightEdge(last.tick.cursor) - EXIT_MARGIN
       /\ last.tick.cursor = LastRoom => currentRoom = LastRoom

\* a tick that moved the cursor
C4_Witness ==
  /\ last.branch = "play"
  /\ currentRoom = last.tick.cursor + 1

\* C5 as the code has it: if after the room update the current room is cleared,
\* the player's x is less than 50 units from the room's right edge and a next room
\* exists, the cursor advances by one, the player's x is the new room's left edge
\* plus 50 and the player's y is unchanged.
C5_AdvanceInsideMargin ==
  ( /\ last.branch = "play"
    /\ last.tick.exitCleared
    /\ last.tick.exitX > RightEdge(last.tick.cursor) - EXIT_MARGIN
    /\ last.tick.cursor < LastRoom )
  => /\ currentRoom = last.tick.cursor + 1
     /\ player.x = rooms[currentRoom + 1].x + EXIT_MARGIN
     /\ player.y = last.tick.exitY

\* the player walks out of a cleared room
C5_Witness ==
  /\ last.branch = "play"
  /\ last.tick.exitCleared
  /\ last.tick.exitX > RightEdge(last.tick.cursor) - EXIT_MARGIN
  /\ last.tick.cursor < LastRoom
  /\ currentRoom = last.tick.cursor + 1
  /\ player.x = rooms[currentRoom + 1].x + EXIT_MARGIN

\* C5 as stated: the same with the player's x at most 50 units from the room's
\* right edge.
C5_AdvanceWithinMargin ==
  ( /\ last.branch = "play"
    /\ last.tick.exitCleared
    /\ last.tick.exitX >= RightEdge(last.tick.cursor) - EXIT_MARGIN
    /\ last.tick.cursor < LastRoom )
  => /\ currentRoom = last.tick.cursor + 1
     /\ player.x = rooms[currentRoom + 1].x + EXIT_MARGIN
     /\ player.y = last.tick.exitY

\* C6: a Playing tick in which the current room is not cleared leaves the cursor
\* and ends with the player's x at most the room's right edge minus 50; in no
\* state is the player beyond that line in an uncleared current room.
C6_HardBlock ==
  /\ ~rooms[currentRoom + 1].cleared =>
       player.x <= RightEdge(currentRoom) - EXIT_MARGIN
  /\ (last.branch = "play" /\ ~last.tick.exitCleared) =>
       /\ currentRoom = last.tick.cursor
       /\ player.x <= RightEdge(last.tick.cursor) - EXIT_MARGIN

\* the player ran into the exit of an uncleared room and was put back
C6_Witness ==
  /\ last.branch = "play"
  /\ ~last.tick.exitCleared
  /\ last.tick.exitX > RightEdge(last.tick.cursor) - EXIT_MARGIN
  /\ player.x = RightEdge(last.tick.cursor) - EXIT_MARGIN

\* C7: after confirm in GameOver the game is in the main menu with the cursor at
\* 0, the player at health 100 with no shoot cooldown, all 100 pool slots
\* inactive, and five rooms, none cleared, every enemy active, at full health
\* and not aggro.
C7_FullReset ==
  (last.branch = "over" /\ last.confirm) =>
    /\ Mode = "MainMenu"
    /\ ~isGameOver
    /\ currentRoom = 0
    /\ player.active
    /\ player.health = PLAYER_HEALTH
    /\ player.shootCooldown = 0
    /\ Len(projectiles) = POOL_SIZE
    /\ \A i \in 1..Len(projectiles) : ~projectiles[i].active
    /\ Len(rooms) = ROOM_COUNT
    /\ \A r \in 1..Len(rooms) :
         /\ ~rooms[r].cleared
         /\ Len(rooms[r].enemies) >= 1
         /\ \A j \in 1..Len(rooms[r].enemies) :
              LET e == rooms[r].enemies[j]
              IN /\ e.active
                 /\ e.health = e.maxHealth
                 /\ e.health = IF r = ROOM_COUNT THEN BOSS_HEALTH ELSE ENEMY_HEALTH
                 /\ ~e.aggro

\* a reset after a session that was played
C7_Witness ==
  /\ last.branch = "over"
  /\ last.confirm
  /\ last.n >= 1
  /\ currentRoom = 0
  /\ player.health = PLAYER_HEALTH

\* the slot a request took: inactive in the pool before, active now
Taken(i) == ~last.pool[i].active /\ projectiles[i].active

\* C8: the projectiles of the pool as constructed are inactive; a fire request
\* on a pool with an inactive slot activates a slot at the source shifted by 20
\* along the direction, with velocity 400 along the direction and 0 across, the
\* faction requested, and damage 10 from the player, 5 from an enemy.
C8_FiredSlot ==
  /\ last.branch = "new" => \A i \in 1..Len(projectiles) : ~projectiles[i].active
  /\ (last.branch = "fire" /\ \E j \in 1..POOL_SIZE : ~last.pool[j].active) =>
       \E i \in 1..POOL_SIZE :
         LET p == projectiles[i]
             q == last.request
         IN /\ Taken(i)
            /\ p.x = q.x + (IF q.dir = "RIGHT" THEN 20 ELSE IF q.dir = "LEFT" THEN -20 ELSE 0)
            /\ p.y = q.y + (IF q.dir = "DOWN" THEN 20 ELSE IF q.dir = "UP" THEN -20 ELSE 0)
            /\ p.speedX = (IF q.dir = "RIGHT" THEN 400 ELSE IF q.dir = "LEFT" THEN -400 ELSE 0)
            /\ p.speedY = (IF q.dir = "DOWN" THEN 400 ELSE IF q.dir = "UP" THEN -400 ELSE 0)
            /\ p.isEnemyProjectile = q.isEnemy
            /\ p.damage = (IF q.isEnemy THEN 5 ELSE 10)

\* the player fires to the right
C8_Witness ==
  /\ last.branch = "fire"
  /\ last.request.dir = "RIGHT"
  /\ ~last.request.isEnemy
  /\ \E i \in 1..POOL_SIZE :
       /\ Taken(i)
       /\ projectiles[i].x = last.request.x + 20
       /\ projectiles[i].speedX = 400
       /\ projectiles[i].damage = 10

\* C9: a fire request activates the inactive slot of lowest index and leaves
\* every other slot as it was; on a pool with all slots active it changes
\* nothing; the pool has 100 slots, so at most 100 projectiles are active.
C9_LowestSlot ==
  /\ Len(projectiles) = 100
  /\ Cardinality({i \in 1..Len(projectiles) : projectiles[i].active}) <= 100
  /\ last.branch = "fire" =>
       /\ \A i \in 1..POOL_SIZE :
            (~last.pool[i].active /\ \A j \in 1..(i - 1) : last.pool[j].active) =>
              /\ projectiles[i].active
              /\ \A j \in 1..POOL_SIZE \ {i} : projectiles[j] = last.pool[j]
       /\ (\A i \in 1..POOL_SIZE : last.pool[i].active) => projectiles = last.pool

\* a request on the full pool
C9_Witness ==
  /\ last.branch = "fire"
  /\ \A i \in 1..POOL_SIZE : last.pool[i].active
  /\ projectiles = last.pool

\* C10: TakeDamage with an amount of at least the health leaves health 0 and
\* the entity inactive; with a smaller amount it leaves the health less the
\* amount and the entity active.
C10_TakeDamage ==
  last.branch = "damage" =>
    /\ last.amount >= last.entity.health =>
         last.result.health = 0 /\ ~last.result.active
    /\ last.amount < last.entity.health =>
         /\ last.result.health = last.entity.health - last.amount
         /\ last.result.active

\* a living entity takes more damage than it has health
C10_Witness ==
  /\ last.branch = "damage"
  /\ last.entity.active
  /\ last.amount > last.entity.health
  /\ last.result.health = 0
  /\ ~last.result.active

\* squared distance between the centres of the pair last tested
Gap2 == (last.a.x - last.b.x) * (last.a.x - last.b.x)
          + (last.a.y - last.b.y) * (last.a.y - last.b.y)

\* squared sum of the radii of the pair last tested
Reach2 == (last.a.radius + last.b.radius) * (last.a.radius + last.b.radius)

\* C11: IsColliding gives the same answer both ways round, and that answer is
\* true exactly when the distance between the centres is less than the sum of
\* the radii; at a distance equal to the sum it is false.
C11_SymmetricStrict ==
  last.branch = "collide" =>
    /\ last.hit = last.back
    /\ last.hit <=> Gap2 < Reach2
    /\ Gap2 = Reach2 => ~last.hit

\* two entities apart in both axes that exactly touch
C11_Witness ==
  /\ last.branch = "collide"
  /\ last.a.x # last.b.x
  /\ last.a.y # last.b.y
  /\ Gap2 = Reach2
  /\ ~last.hit
  /\ ~last.back

\* C12: after Room::Update the room is cleared exactly when none of its
\* enemies is active; a room without enemies is cleared after its first update.
C12_ClearedIff ==
  last.branch = "update" =>
    /\ last.room.cleared <=>
         \A j \in 1..Len(last.room.enemies) : ~last.room.enemies[j].active
    /\ Len(last.room.enemies) = 0 => last.room.cleared

\* the first update of the room without enemies
C12_Witness ==
  /\ last.branch = "update"
  /\ last.n = 1
  /\ Len(last.room.enemies) = 0
  /\ last.room.cleared

\* C13: after an update of an enemy its aggro flag is true exactly when the
\* player was at most 150 units from where the enemy stood at the start of the
\* update, whatever the flag was before.
C13_AggroNoMemory ==
  (last.branch = "step" /\ last.kind = "enemy") =>
    LET dx == last.target.x - last.old.x
        dy == last.target.y - last.old.y
    IN last.unit.aggro <=> dx * dx + dy * dy <= 150 * 150

\* an aggro enemy loses the flag in the update that finds the player far away
C13_Witness ==
  /\ last.branch = "step"
  /\ last.kind = "enemy"
  /\ last.old.aggro
  /\ ~last.unit.aggro

\* can the shooter under test shoot
UnitCanShoot ==
  IF last.kind = "player" THEN PlayerCanShoot(last.unit) ELSE EnemyCanShoot(last.unit)

\* C14: a shooter that can shoot has a cooldown of at most 0 and, if it is an
\* enemy, is aggro; right after the cooldown reset no shooter can shoot, aggro
\* or not.
C14_CanShoot ==
  last.branch \in {"new", "step", "reset"} =>
    /\ UnitCanShoot =>
         /\ last.unit.shootCooldown <= 0
         /\ last.kind = "enemy" => last.unit.aggro
    /\ last.branch = "reset" => ~UnitCanShoot

\* an aggro enemy right after its cooldown reset
C14_Witness ==
  /\ last.branch = "reset"
  /\ last.kind = "enemy"
  /\ last.unit.aggro
  /\ last.unit.shootCooldown > 0
  /\ ~UnitCanShoot

\* the rooms are laid out as Game::ResetGame builds them
LevelLayout ==
  /\ Len(rooms) = 5
  /\ \A i \in 1..Len(rooms) :
       /\ rooms[i].x = 800 * (i - 1)
       /\ rooms[i].y = 0
       /\ rooms[i].width = 800
       /\ rooms[i].height = 600
       /\ rooms[i].hasBoss <=> i = 5
       /\ IF i < 5
            THEN /\ Len(rooms[i].enemies) \in 3..6
                 /\ \A j \in 1..Len(rooms[i].enemies) : ~rooms[i].enemies[j].isBoss
            ELSE /\ Len(rooms[i].enemies) = 1
                 /\ rooms[i].enemies[1].isBoss
                 /\ rooms[i].enemies[1].maxHealth = 150

\* the level has just been generated: the game as constructed, or the frame
\* that left the game over screen
Generated == last.branch = "new" \/ (last.branch = "over" /\ last.confirm)

\* the boss as generated: full health, at the center of the last room
BossAsPlaced ==
  Generated =>
    /\ rooms[5].enemies[1].health = 150
    /\ rooms[5].enemies[1].active
    /\ rooms[5].enemies[1].x = rooms[5].x + rooms[5].width \div 2
    /\ rooms[5].enemies[1].y = rooms[5].y + rooms[5].height \div 2

RosterSizes == [i \in 1..Len(rooms) |-> Len(rooms[i].enemies)]

PressedAgainstExit ==
  /\ last.branch = "play"
  /\ Mode = "Playing"
  /\ ~last.tick.exitCleared
  /\ last.tick.exitX > RightEdge(last.tick.cursor) - 50

\* C16: the frame drawn after a Playing tick in which the player was pressed
\* against the exit of the uncleared current room shows the blocked exit message.
C16_BlockedExitFlag == PressedAgainstExit => BlockedExit(Game)

\* C16, what the program does: the message is shown in no frame drawn after a
\* Playing tick, since the tick leaves the player at most on the edge of the
\* exit band and the message asks for a player beyond it.
C16_NeverShown == (last.branch = "play" /\ Mode = "Playing") => ~BlockedExit(Game)

\* the player was pressed against the exit and the message is not shown
C16_Witness ==
  /\ PressedAgainstExit
  /\ player.x = RightEdge(currentRoom) - 50
  /\ ~BlockedExit(Game)

\* In the states after a resolution: the room and the enemies the resolution
\* started from and ended with, the projectile of slot i as advanced by it, the
\* slots in flight (active at the start), and those still inside the room once
\* advanced.
RoomBefore == CurrentRoomOf(last.before)

EnemiesBefore == RoomBefore.enemies

EnemiesAfter == CurrentRoomOf(Game).enemies

Advanced(i) == ProjectileUpdate(last.before.projectiles[i], last.dt)

InFlight == ActiveSlots(last.before.projectiles)

InRoom == {i \in InFlight : ContainsPoint(RoomBefore, Advanced(i).x, Advanced(i).y)}

PlayerShots == {i \in InFlight : ~last.before.projectiles[i].isEnemyProjectile}

EnemyShots == {i \in InFlight : last.before.projectiles[i].isEnemyProjectile}

\* health lost in the resolution by enemy k and by the player
EnemyLost(k) == EnemiesBefore[k].health - EnemiesAfter[k].health

PlayerLost == last.before.player.health - player.health

RECURSIVE EnemiesLostFrom(_)
EnemiesLostFrom(k) ==
  IF k > Len(EnemiesBefore) THEN 0 ELSE EnemyLost(k) + EnemiesLostFrom(k + 1)

\* the active enemies that the advanced projectile of slot i overlaps
Overlapped(i) ==
  {k \in 1..Len(EnemiesBefore) :
     EnemiesBefore[k].active /\ IsColliding(Advanced(i), EnemiesBefore[k])}

\* C17: the enemies lose in all at most 10 health per player projectile spent
\* in the resolution; when one player projectile is in flight and overlaps
\* active enemies, the first of them in roster order takes its damage, the
\* projectile is deactivated and no other enemy loses health.
C17_OneEnemyPerShot ==
  last.branch = "resolve" =>
    /\ EnemiesLostFrom(1)
         <= 10 * Cardinality({i \in PlayerShots \cap InRoom : ~projectiles[i].active})
    /\ \A i \in PlayerShots \cap InRoom :
         (PlayerShots = {i} /\ Overlapped(i) # {}) =>
           LET j == LowestOf(Overlapped(i))
           IN /\ ~projectiles[i].active
              /\ EnemiesAfter[j] = TakeDamage(EnemiesBefore[j], 10)
              /\ \A k \in 1..Len(EnemiesBefore) : k # j => EnemiesAfter[k] = EnemiesBefore[k]

\* one player projectile overlapped three active enemies and only the first
\* of them lost health
C17_Witness ==
  /\ last.branch = "resolve"
  /\ \E i \in PlayerShots \cap InRoom :
       /\ PlayerShots = {i}
       /\ Cardinality(Overlapped(i)) = 3
       /\ EnemyLost(LowestOf(Overlapped(i))) = 10
       /\ EnemiesLostFrom(1) = 10

\* C18: the player loses health only by enemy projectiles that collide with
\* it, 5 for each down to 0, and an enemy loses health only by player
\* projectiles that collide with it, 10 for each at most; player projectiles
\* leave the player's health alone and enemy projectiles the enemies' health.
C18_Factions ==
  last.branch = "resolve" =>
    LET hits == {i \in EnemyShots \cap InRoom : IsColliding(Advanced(i), last.before.player)}
    IN /\ player.health = Max(0, last.before.player.health - 5 * Cardinality(hits))
       /\ \A k \in 1..Len(EnemiesBefore) :
            LET shots == {i \in PlayerShots : IsColliding(Advanced(i), EnemiesBefore[k])}
            IN /\ EnemyLost(k) >= 0
               /\ EnemyLost(k) <= 10 * Cardinality(shots)
               /\ EnemyLost(k) \in {0, EnemiesBefore[k].health} \/ EnemyLost(k) % 10 = 0

\* an enemy projectile overlapped an active enemy, which lost nothing, and
\* another hit the player, who lost 5
C18_Witness ==
  /\ last.branch = "resolve"
  /\ PlayerLost = 5
  /\ \E i \in EnemyShots \cap InRoom, k \in 1..Len(EnemiesBefore) :
       /\ EnemiesBefore[k].active
       /\ IsColliding(Advanced(i), EnemiesBefore[k])
       /\ EnemyLost(k) = 0

\* C19: a projectile in flight whose advanced position is outside the current
\* room's rectangle, borders included, is deactivated; health is lost only to
\* projectiles that are inside the room once advanced; after the resolution
\* every active projectile is inside that room.
C19_OutOfRoom ==
  last.branch = "resolve" =>
    /\ \A i \in InFlight \ InRoom : ~projectiles[i].active
    /\ PlayerLost > 0 =>
         \E i \in EnemyShots \cap InRoom : IsColliding(Advanced(i), last.before.player)
    /\ \A k \in 1..Len(EnemiesBefore) :
         EnemyLost(k) > 0 =>
           \E i \in PlayerShots \cap InRoom : IsColliding(Advanced(i), EnemiesBefore[k])
    /\ \A i \in ActiveSlots(projectiles) :
         ContainsPoint(RoomBefore, projectiles[i].x, projectiles[i].y)

\* an enemy projectile left the room at a place where it overlaps the player:
\* it is deactivated and the player has lost nothing
C19_Witness ==
  /\ last.branch = "resolve"
  /\ PlayerLost = 0
  /\ \E i \in EnemyShots \ InRoom :
       /\ IsColliding(Advanced(i), last.before.player)
       /\ ~projectiles[i].active

\* C20: every collision test of a projectile resolution is made against an
\* entity that is active when it is tested, the player included.
C20_OnlyActiveTested ==
  last.branch = "resolve" => \A t \in last.tests : t.live

\* an enemy projectile brought the player's health to 0 and a later one of the
\* same resolution was tested against the dead player and absorbed by it
C20_Witness ==
  /\ last.branch = "resolve"
  /\ last.before.player.active
  /\ \E t \in last.tests :
       /\ t.target = 0
       /\ ~t.live
       /\ IsColliding(Advanced(t.slot), last.before.player)
       /\ ~projectiles[t.slot].active

\* the player and every enemy and boss of every room
Actors == {player} \cup UNION {{rooms[i].enemies[j] : j \in 1..Len(rooms[i].enemies)} :
                                 i \in 1..Len(rooms)}

\* Projectile::Fire leaves one of the two speeds at +-400 and nothing sets them
\* back: a slot has been fired exactly when its speeds are not both 0
EverFired(p) == p.speedX # 0 \/ p.speedY # 0

\* C21, as stated: every inactive entity has health 0 or is a projectile slot
\* that has never been fired.
C21_InactiveZeroOrUnfired ==
  /\ \A e \in Actors : ~e.active => e.health = 0
  /\ \A i \in 1..Len(projectiles) :
       ~projectiles[i].active => (projectiles[i].health = 0 \/ ~EverFired(projectiles[i]))

\* C21, as the program has it: an inactive player, enemy or boss has health 0;
\* a projectile slot has health 1 always, fired or not, active or not.
C21_InactiveActorZero ==
  /\ \A e \in Actors : ~e.active => e.health = 0
  /\ \A i \in 1..Len(projectiles) : projectiles[i].health = 1

\* a dead enemy with health 0 next to a spent projectile: fired, inactive,
\* health 1
C21_Witness ==
  /\ last.branch = "play"
  /\ \E e \in Actors : ~e.active /\ e.health = 0
  /\ \E i \in 1..Len(projectiles) :
       /\ ~projectiles[i].active
       /\ EverFired(projectiles[i])
       /\ projectiles[i].health = 1

\* the frame resets the game: a new session starts
ResetFrame == last'.branch = "over" /\ last'.confirm

\* e, an actor before a frame, and f, the same actor after it: the health has
\* not gone up and a dead actor has stayed dead
NotRevived(e, f) ==
  /\ f.health <= e.health
  /\ ~e.active => ~f.active

\* C22: every player, enemy and boss has 0 <= health <= maxHealth; in a frame
\* that does not reset the game no health goes up and no inactive player,
\* enemy or boss becomes active.
C22_HealthMonotone ==
  /\ [](\A e \in Actors : 0 <= e.health /\ e.health <= e.maxHealth)
  /\ [][ResetFrame \/
          /\ NotRevived(player, player')
          /\ Len(rooms') = Len(rooms)
          /\ \A i \in 1..Len(rooms) :
               /\ Len(rooms'[i].enemies) = Len(rooms[i].enemies)
               /\ \A j \in 1..Len(rooms[i].enemies) :
                    NotRevived(rooms[i].enemies[j], rooms'[i].enemies[j])]_vars

\* after a Playing tick: a hurt player, a dead enemy and a hurt boss that is
\* still alive
C22_Witness ==
  /\ last.branch = "play"
  /\ player.health \in 1..(player.maxHealth - 1)
  /\ \E j \in 1..Len(rooms[1].enemies) :
       ~rooms[1].enemies[j].active /\ rooms[1].enemies[j].health = 0
  /\ rooms[5].enemies[1].active
  /\ rooms[5].enemies[1].health \in 1..(rooms[5].enemies[1].maxHealth - 1)

\* the center of e is inside the bounds of room inset by e's radius
InsetContains(room, e) ==
  /\ room.x + e.radius <= e.x
  /\ e.x <= room.x + room.width - e.radius
  /\ room.y + e.radius <= e.y
  /\ e.y <= room.y + room.height - e.radius

\* C23: after every Playing tick the player is inside the current room inset
\* by the player's radius and every enemy is inside its own room inset by its
\* radius.
C23_Containment ==
  last.branch = "play" =>
    /\ InsetContains(rooms[currentRoom + 1], player)
    /\ \A i \in 1..Len(rooms) : \A j \in 1..Len(rooms[i].enemies) :
         InsetContains(rooms[i], rooms[i].enemies[j])

\* the tick in which the cursor advanced: the player stands at the entry of
\* the new room, an enemy of the room left lies against its right wall
C23_Witness ==
  /\ last.branch = "play"
  /\ currentRoom = last.tick.cursor + 1
  /\ player.x = rooms[currentRoom + 1].x + 50
  /\ \E j \in 1..Len(rooms[currentRoom].enemies) :
       rooms[currentRoom].enemies[j].x
         = rooms[currentRoom].x + rooms[currentRoom].width - rooms[currentRoom].enemies[j].radius

\* C24: after a player update the facing is RIGHT if D is held, else LEFT if A,
\* else DOWN if S, else UP if W, else what it was; the vertical speed is 200 if
\* S is held, else -200 if W, else 0; the horizontal speed is 200 if D is held,
\* else -200 if A, else 0; the position moves by that speed; the speeds before
\* the update play no part.
C24_LastWriteWins ==
  last.branch = "steer" =>
    LET k == last.keys
        vx == IF k.D THEN 200 ELSE IF k.A THEN -200 ELSE 0
        vy == IF k.S THEN 200 ELSE IF k.W THEN -200 ELSE 0
    IN /\ last.unit.facing = IF k.D THEN "RIGHT"
                              ELSE IF k.A THEN "LEFT"
                              ELSE IF k.S THEN "DOWN"
                              ELSE IF k.W THEN "UP"
                              ELSE last.old.facing
       /\ last.unit.speedX = vx
       /\ last.unit.speedY = vy
       /\ last.unit.x = last.old.x + (vx * last.dt) \div 10
       /\ last.unit.y = last.old.y + (vy * last.dt) \div 10

\* W and S held together by a player that was moving up and left: it moves
\* straight down
C24_Witness ==
  /\ last.branch = "steer"
  /\ last.keys = KeyWS
  /\ last.old.speedY = -200
  /\ last.old.speedX = -200
  /\ last.unit.speedY = 200
  /\ last.unit.speedX = 0
  /\ last.unit.facing = "DOWN"

\* the shooter has made a shot in this tick that is not its first
ShotAgain(t) == t.shot /\ t.gap >= 0

\* C25: between two consecutive shots of one shooter the delta-times of the
\* ticks after the first shot, up to and including the tick of the second, sum
\* to at least its cooldown, 0.3 s for the player and 1.5 s for an enemy or
\* boss; an enemy shoots only in a tick in which it is active and aggro.
C25_FireRate ==
  last.branch = "tick" =>
    /\ ShotAgain(last.byPlayer) => last.byPlayer.gap >= 3
    /\ \A j \in 1..Len(last.byEnemy) :
         /\ ShotAgain(last.byEnemy[j]) => last.byEnemy[j].gap >= 15
         /\ last.byEnemy[j].shot => last.armed[j]

\* C25, what the program does: the player's shots are apart as stated; an
\* enemy's cooldown runs from the tick of its shot, whose delta-time counts, up
\* to the tick before its next shot, so the delta-times counted are those of the
\* tick of the first shot and of the ticks between the two shots.
C25_RateAsBuilt ==
  last.branch = "tick" =>
    /\ ShotAgain(last.byPlayer) => last.byPlayer.gap >= 3
    /\ \A j \in 1..Len(last.byEnemy) :
         /\ ShotAgain(last.byEnemy[j]) =>
              last.byEnemy[j].gap - last.dt + last.byEnemy[j].prevDt >= 15
         /\ last.byEnemy[j].shot => last.armed[j]

\* an enemy shoots in a tick of 1.5 s and again in the next tick, of 0 s
C25_Witness ==
  /\ last.branch = "tick"
  /\ \E j \in 1..Len(last.byEnemy) :
       /\ ShotAgain(last.byEnemy[j])
       /\ last.byEnemy[j].gap = 0
       /\ last.byEnemy[j].prevDt = 15
       /\ last.armed[j]

\* C26: a Playing tick leaves every room but the one current at its start as
\* it was, enemies and cleared flag alike; the enemies of a room stay its own.
C26_OtherRoomsUntouched ==
  [][last'.branch = "play" =>
       /\ Len(rooms') = Len(rooms)
       /\ \A i \in 1..Len(rooms) : i # currentRoom + 1 => rooms'[i] = rooms[i]]_vars

\* the tick in which the cursor advanced: the room entered is as generated,
\* its enemies where they were placed, not aggro, timers at 0
C26_Witness ==
  /\ last.branch = "play"
  /\ currentRoom = last.tick.cursor + 1
  /\ ~rooms[currentRoom + 1].cleared
  /\ \A j \in 1..Len(rooms[currentRoom + 1].enemies) :
       LET e == rooms[currentRoom + 1].enemies[j]
       IN /\ e.active
          /\ e.health = e.maxHealth
          /\ e.moveTimer = 0
          /\ ~e.aggro
          /\ e.x = rooms[currentRoom + 1].x + 700

\* the pipeline in two phases: every active projectile of game g is advanced,
\* then every one of them is resolved, in index order, where it stands
TwoPhase(g, dt) ==
  LET advanced == [i \in 1..Len(g.projectiles) |-> ProjectileUpdate(g.projectiles[i], dt)]
      st == UpdateProjectilesFrom([pool |-> advanced,
                                   enemies |-> CurrentRoomOf(g).enemies,
                                   player |-> g.player],
                                  CurrentRoomOf(g), 0, ActiveSlots(advanced))
  IN [g EXCEPT !.projectiles = st.pool,
               !.rooms[g.currentRoom + 1].enemies = st.enemies,
               !.player = st.player]

\* C27: the single pass of UpdateProjectiles, which advances and resolves one
\* slot after the other, leaves the game in the state that advancing every
\* active projectile and then resolving them all would leave it in.
C27_TwoPhaseSame ==
  last.branch = "resolve" => Game = TwoPhase(last.before, last.dt)

\* two player projectiles, advanced to the same place, overlapped an enemy one
\* hit from death: the lower slot killed it and the higher one flies on
C27_Witness ==
  /\ last.branch = "resolve"
  /\ \E i \in PlayerShots \cap InRoom, j \in PlayerShots \cap InRoom :
       /\ i < j
       /\ \E k \in Overlapped(i) \cap Overlapped(j) :
            /\ EnemiesBefore[k].health = 10
            /\ ~EnemiesAfter[k].active
       /\ ~projectiles[i].active
       /\ projectiles[j].active

\* C28: a room below the cursor is cleared and all its enemies are inactive; a
\* room above the cursor is not cleared and all its enemies are active at full
\* health; when the game is over with the player alive, every enemy of every
\* room, the boss included, is inactive.
C28_RoomsBehindAndAhead ==
  /\ \A i \in 1..Len(rooms) :
       /\ i < currentRoom + 1 =>
            /\ rooms[i].cleared
            /\ \A j \in 1..Len(rooms[i].enemies) : ~rooms[i].enemies[j].active
       /\ i > currentRoom + 1 =>
            /\ ~rooms[i].cleared
            /\ \A j \in 1..Len(rooms[i].enemies) :
                 /\ rooms[i].enemies[j].active
                 /\ rooms[i].enemies[j].health = rooms[i].enemies[j].maxHealth
  /\ (isGameOver /\ player.health > 0) =>
       \A i \in 1..Len(rooms) : \A j \in 1..Len(rooms[i].enemies) :
         ~rooms[i].enemies[j].active

\* the tick that kills the boss: the game is won, the cursor on the last room
C28_Witness ==
  /\ last.branch = "play"
  /\ isGameOver
  /\ player.health > 0
  /\ currentRoom = 4
  /\ rooms[5].cleared
  /\ ~rooms[5].enemies[1].active

\* C29: when every slot of the pool is active, the shooting of a tick leaves the
\* pool as it is, and each shooter that could shoot, the player with the fire
\* key held and every active enemy, has its cooldown at the full value, 0.3 s
\* for the player and 1.5 s for an enemy or boss, and cannot shoot.
C29_DroppedShot ==
  (last.branch = "shoot" /\ FirstInactive(last.before.projectiles) = 0) =>
    /\ projectiles = last.before.projectiles
    /\ (last.keys.SPACE /\ PlayerCanShoot(last.moved.player)) =>
         /\ player.shootCooldown = 3
         /\ ~PlayerCanShoot(player)
    /\ \A j \in 1..Len(CurrentRoomOf(last.before).enemies) :
         LET was == CurrentRoomOf(last.before).enemies[j]
             now == CurrentRoomOf(Game).enemies[j]
         IN (was.active /\ EnemyCanShoot(was)) =>
              /\ now.shootCooldown = 15
              /\ ~EnemyCanShoot(now)
              /\ now.aggro

\* the pool is full, the player and an enemy could both shoot: both shots are
\* dropped and both cooldowns are reset
C29_Witness ==
  /\ last.branch = "shoot"
  /\ FirstInactive(last.before.projectiles) = 0
  /\ projectiles = last.before.projectiles
  /\ last.keys.SPACE
  /\ PlayerCanShoot(last.moved.player)
  /\ player.shootCooldown = 3
  /\ \E j \in 1..Len(CurrentRoomOf(last.before).enemies) :
       /\ CurrentRoomOf(last.before).enemies[j].active
       /\ EnemyCanShoot(CurrentRoomOf(last.before).enemies[j])
       /\ CurrentRoomOf(Game).enemies[j].shootCooldown = 15

====
